---- MODULE Spec2Model ----
(***************************************************************************)
(* Model of src/src/StorageRent/StorageRent.ts: calculateMonthlyRent and   *)
(* its helpers.  One call of calculateMonthlyRent is a run of the state    *)
(* machine: Init draws the seven arguments, the actions are the blocks of  *)
(* the function body in program order, pc = "done" is the return.          *)
(*                                                                         *)
(* Dates are calendar dates [year, month, day] with month 0..11 as in the  *)
(* JavaScript Date API; NewDate models the Date(year, month, day)          *)
(* constructor including its roll-over of out-of-range days and months.    *)
(* Amounts are exact rationals [n, d] in lowest terms; roundToTwo yields   *)
(* an integer number of cents.                                             *)
(***************************************************************************)
EXTENDS Integers, Sequences, FiniteSets

VARIABLES
    baseMonthlyRent,          \* argument: rational
    leaseStartDate,           \* argument: date
    windowStartDate,          \* argument: date
    windowEndDate,            \* argument: date
    dayOfMonthRentDue,        \* argument: 1..31
    rentRateChangeFrequency,  \* argument: months
    rentChangeRate,           \* argument: rational
    pc,                       \* position in calculateMonthlyRent
    results,                  \* sequence of records pushed so far
    rentChangeDates,          \* the schedule (dates in generateRentChangeDates)
    year,                     \* generateRentChangeDates: local year
    month,                    \* generateRentChangeDates: local month
    changeDate,               \* generateRentChangeDates: local changeDate
    currentMonthlyRent,       \* running rent level
    secondPaymentDate,        \* date of the second payment
    previousDueDate,          \* recurring loop
    currentDueDate,           \* recurring loop
    iterationSafety           \* recurring loop counter

args == <<baseMonthlyRent, leaseStartDate, windowStartDate, windowEndDate,
          dayOfMonthRentDue, rentRateChangeFrequency, rentChangeRate>>

genVars == <<rentChangeDates, year, month, changeDate>>

loopVars == <<currentMonthlyRent, secondPaymentDate, previousDueDate,
              currentDueDate, iterationSafety>>

vars == <<args, pc, results, genVars, loopVars>>

----------------------------------------------------------------------------
(* Bounds of the model *)

\* number of consecutive calendar months the argument dates are drawn from
MaxMonths == 5

\* the calendar months the argument dates start from: December of a year
\* before a common year (2023) and before a leap year (2024)
FirstYears == {2022, 2023}

\* the loop cap of calculateMonthlyRent
MaxIterations == 500

\* LongSpec: the number of years from the early lease start to the end of
\* the long window (more than MaxIterations months)
LongYears == 43

\* LongSpec: the year of the early lease start
LongFirstYears == {1980}

----------------------------------------------------------------------------
(* Rationals in lowest terms, d > 0 *)
(* Gcd, Rat and RatMul bind their arguments to values (p) before using    *)
(* them, so that an argument expression is evaluated once however often   *)
(* the body refers to it.                                                  *)

RECURSIVE Gcd(_, _)
Gcd(a, b) ==
    CHOOSE g \in { IF p[2] = 0 THEN p[1] ELSE Gcd(p[2], p[1] % p[2]) :
                     p \in {<<a, b>>} } : TRUE

Abs(x) == IF x < 0 THEN -x ELSE x

Rat(n, d) ==
    CHOOSE r \in { LET g == Gcd(Abs(p[1]), p[2])
                   IN  [n |-> p[1] \div g, d |-> p[2] \div g] :
                     p \in {<<n, d>>} } : TRUE

RatMul(a, b) ==
    CHOOSE r \in { LET g1 == Gcd(Abs(p[1].n), p[2].d)
                       g2 == Gcd(Abs(p[2].n), p[1].d)
                   IN  Rat((p[1].n \div g1) * (p[2].n \div g2),
                           (p[1].d \div g2) * (p[2].d \div g1)) :
                     p \in {<<a, b>>} } : TRUE

RatAdd(a, b) == Rat(a.n * b.d + b.n * a.d, a.d * b.d)

RatLess(a, b) == a.n * b.d < b.n * a.d

One == [n |-> 1, d |-> 1]

Zero == [n |-> 0, d |-> 1]

----------------------------------------------------------------------------
(* The Date API as the code uses it *)

\* the Gregorian calendar of the Date object (the file's own isLeapYear,
\* lines 292-294, is never called)
LeapYear(y) == (y % 4 = 0 /\ y % 100 # 0) \/ y % 400 = 0

DaysInMonth(y, m) ==
    IF m = 1 THEN (IF LeapYear(y) THEN 29 ELSE 28)
    ELSE IF m \in {3, 5, 8, 10} THEN 30 ELSE 31

\* new Date(y, m, d): out-of-range months and days roll over
RECURSIVE NewDate(_, _, _)
NewDate(y, m, d) ==
    IF m > 11 THEN NewDate(y + 1, m - 12, d)
    ELSE IF m < 0 THEN NewDate(y - 1, m + 12, d)
    ELSE IF d < 1 THEN
        (IF m = 0 THEN NewDate(y - 1, 11, d + DaysInMonth(y - 1, 11))
         ELSE NewDate(y, m - 1, d + DaysInMonth(y, m - 1)))
    ELSE IF d > DaysInMonth(y, m) THEN NewDate(y, m + 1, d - DaysInMonth(y, m))
    ELSE [year |-> y, month |-> m, day |-> d]

getFullYear(d) == d.year

getMonth(d) == d.month

getDate(d) == d.day

\* days before the first of month m in year y
DaysBeforeMonth(y, m) ==
    LET common == <<0, 31, 59, 90, 120, 151, 181, 212, 243, 273, 304, 334>>
    IN  common[m + 1] + (IF m > 1 /\ LeapYear(y) THEN 1 ELSE 0)

\* Date.getTime(), counted in days
getTime(d) ==
    LET y == d.year - 1
    IN  365 * y + (y \div 4) - (y \div 100) + (y \div 400)
        + DaysBeforeMonth(d.year, d.month) + d.day

\* -Infinity of applyAllApplicableRentChanges
MinusInfinity == -1

NoDate == [year |-> 0, month |-> 0, day |-> 0]

----------------------------------------------------------------------------
(* Helpers of StorageRent.ts *)

calculateNewMonthlyRent(baseRent, rate) == RatMul(baseRent, RatAdd(One, rate))

\* Math.round(n * 100) / 100, as a number of cents
roundToTwo(x) ==
    LET c == RatMul(x, [n |-> 100, d |-> 1])
    IN  (2 * c.n + c.d) \div (2 * c.d)

clampToLastDayOfMonth(d) ==
    LET y == getFullYear(d)
        m == getMonth(d)
        desiredDay == getDate(d)
        lastDay == getDate(NewDate(y, m + 1, 0))
    IN  IF desiredDay > lastDay THEN NewDate(y, m, lastDay) ELSE d

\* nextMonthSameDueDay carrying the previous date's (already clamped) day
\* forward instead of the configured due day
nextMonthSamePreviousDay(currentDate, dayOfMonth) ==
    LET m0 == getMonth(currentDate) + 1
        y == IF m0 > 11 THEN getFullYear(currentDate) + 1
             ELSE getFullYear(currentDate)
        m == IF m0 > 11 THEN 0 ELSE m0
        lastDay == getDate(NewDate(y, m + 1, 0))
        prevDay == getDate(currentDate)
        clampedDay == IF prevDay < lastDay THEN prevDay ELSE lastDay
    IN  NewDate(y, m, clampedDay)

nextMonthSameDueDay(currentDate, dayOfMonth) ==
    LET m0 == getMonth(currentDate) + 1
        y == IF m0 > 11 THEN getFullYear(currentDate) + 1
             ELSE getFullYear(currentDate)
        m == IF m0 > 11 THEN 0 ELSE m0
        lastDay == getDate(NewDate(y, m + 1, 0))
        clampedDay == IF dayOfMonth < lastDay THEN dayOfMonth ELSE lastDay
    IN  NewDate(y, m, clampedDay)

\* inInterval with the previous due date included: [previous, upcoming]
inIntervalClosed(cdt, prevTime, nextTime) == cdt >= prevTime /\ cdt <= nextTime

\* line 229: cd lies in (previousDueDate, upcomingDueDate]
inInterval(cdt, prevTime, nextTime) == cdt > prevTime /\ cdt <= nextTime

\* occupantIsRenting with the lease start day itself counted as vacant
occupantIsRentingAfter(cd, lease) == getTime(cd) > getTime(lease)

\* line 231: is the occupant renting at cd?
occupantIsRenting(cd, lease) == getTime(cd) >= getTime(lease)

\* lines 227-242: the for loop over rentChangeDates, from index i on
RECURSIVE ApplyFrom(_, _, _, _, _, _, _)
ApplyFrom(i, currentRent, rate, dates, prevTime, nextTime, lease) ==
    IF i > Len(dates) THEN currentRent
    ELSE
        LET cd == dates[i]
            cdt == getTime(cd)
            newRent ==
                IF inInterval(cdt, prevTime, nextTime)
                THEN IF occupantIsRenting(cd, lease) /\ RatLess(Zero, rate)
                     THEN calculateNewMonthlyRent(currentRent, rate)
                     ELSE IF ~occupantIsRenting(cd, lease) /\ RatLess(rate, Zero)
                     THEN calculateNewMonthlyRent(currentRent, rate)
                     ELSE currentRent
                ELSE currentRent
        IN  ApplyFrom(i + 1, newRent, rate, dates, prevTime, nextTime, lease)

\* previousDueDate = NoDate stands for null
applyAllApplicableRentChanges(currentRent, rate, dates, prev, upcoming, lease) ==
    LET prevTime == IF prev = NoDate THEN MinusInfinity ELSE getTime(prev)
        nextTime == getTime(upcoming)
    IN  ApplyFrom(1, currentRent, rate, dates, prevTime, nextTime, lease)

\* while (month > 11) { month -= 12; year++; }
RECURSIVE WrapMonth(_, _)
WrapMonth(y, m) ==
    IF m > 11 THEN WrapMonth(y + 1, m - 12) ELSE [year |-> y, month |-> m]

----------------------------------------------------------------------------
(* The arguments *)

\* month index k (0-based) of the horizon starting in December of year y0
HorizonMonth(y0, k) == WrapMonth(y0, 11 + k)

\* the dates of the horizon on the given days of the month, a day beyond a
\* month's length standing for that month's last day
DatesOf(y0, days) ==
    UNION { LET hm == HorizonMonth(y0, k)
                last == DaysInMonth(hm.year, hm.month)
            IN  { NewDate(hm.year, hm.month, IF dd > last THEN last ELSE dd) :
                    dd \in days } :
            k \in 0..(MaxMonths - 1) }

LeaseDays == {1, 15, 31}

WindowStartDays == {1, 15}

WindowEndDays == {15, 31}

DueDays == {1, 15, 30, 31}

Frequencies == {-1, 0, 1, 2}

Rates == {[n |-> -1, d |-> 10], Zero, [n |-> 1, d |-> 10]}

Bases == {[n |-> 100, d |-> 1]}

Init ==
    /\ \E y0 \in FirstYears :
        /\ leaseStartDate \in DatesOf(y0, LeaseDays)
        /\ windowStartDate \in DatesOf(y0, WindowStartDays)
        /\ windowEndDate \in DatesOf(y0, WindowEndDays)
    /\ baseMonthlyRent \in Bases
    /\ dayOfMonthRentDue \in DueDays
    /\ rentRateChangeFrequency \in Frequencies
    /\ rentChangeRate \in Rates
    /\ pc = "start"
    /\ results = <<>>
    /\ rentChangeDates = <<>>
    /\ year = 0
    /\ month = 0
    /\ changeDate = NoDate
    /\ currentMonthlyRent = Zero
    /\ secondPaymentDate = NoDate
    /\ previousDueDate = NoDate
    /\ currentDueDate = NoDate
    /\ iterationSafety = 0

----------------------------------------------------------------------------
(* calculateMonthlyRent, block by block *)

\* WindowGuard without the early return
WindowGuardMissing ==
    /\ pc = "start"
    /\ pc' = "gen"
    /\ UNCHANGED <<args, results, genVars, loopVars>>

\* lines 37-42: the window guard
WindowGuard ==
    /\ pc = "start"
    /\ pc' = IF getTime(windowStartDate) > getTime(windowEndDate)
             THEN "done" ELSE "gen"
    /\ UNCHANGED <<args, results, genVars, loopVars>>

\* GenBegin taking the 1st of the window start's own month as first candidate
GenBeginAtWindowMonth ==
    /\ pc = "gen"
    /\ IF rentRateChangeFrequency <= 0
       THEN /\ pc' = "lease"
            /\ UNCHANGED genVars
       ELSE LET w == WrapMonth(getFullYear(windowStartDate),
                               getMonth(windowStartDate))
            IN  /\ year' = w.year
                /\ month' = w.month
                /\ changeDate' = NewDate(w.year, w.month, 1)
                /\ pc' = "genloop"
                /\ UNCHANGED rentChangeDates
    /\ UNCHANGED <<args, results, loopVars>>

\* GenBegin returning the empty schedule only for a negative frequency
GenBeginNegativeOnly ==
    /\ pc = "gen"
    /\ IF rentRateChangeFrequency < 0
       THEN /\ pc' = "lease"
            /\ UNCHANGED genVars
       ELSE LET w == WrapMonth(getFullYear(windowStartDate),
                               getMonth(windowStartDate)
                                 + rentRateChangeFrequency)
            IN  /\ year' = w.year
                /\ month' = w.month
                /\ changeDate' = NewDate(w.year, w.month, 1)
                /\ pc' = "genloop"
                /\ UNCHANGED rentChangeDates
    /\ UNCHANGED <<args, results, loopVars>>

\* generateRentChangeDates, lines 178-192: up to the first candidate
GenBegin ==
    /\ pc = "gen"
    /\ IF rentRateChangeFrequency <= 0
       THEN /\ pc' = "lease"
            /\ UNCHANGED genVars
       ELSE LET w == WrapMonth(getFullYear(windowStartDate),
                               getMonth(windowStartDate)
                                 + rentRateChangeFrequency)
            IN  /\ year' = w.year
                /\ month' = w.month
                /\ changeDate' = NewDate(w.year, w.month, 1)
                /\ pc' = "genloop"
                /\ UNCHANGED rentChangeDates
    /\ UNCHANGED <<args, results, loopVars>>

\* generateRentChangeDates, lines 194-206: the while loop, one iteration or exit
GenLoop ==
    /\ pc = "genloop"
    /\ IF getTime(changeDate) <= getTime(windowEndDate)
       THEN LET w == WrapMonth(year, month + rentRateChangeFrequency)
            IN  /\ rentChangeDates' = Append(rentChangeDates, changeDate)
                /\ year' = w.year
                /\ month' = w.month
                /\ changeDate' = NewDate(w.year, w.month, 1)
                /\ pc' = "genloop"
       ELSE /\ pc' = "lease"
            /\ UNCHANGED genVars
    /\ UNCHANGED <<args, results, loopVars>>

\* LeaseGuard returning also for a lease that starts on the window's last day
LeaseGuardInclusive ==
    /\ pc = "lease"
    /\ currentMonthlyRent' = baseMonthlyRent
    /\ pc' = IF getTime(leaseStartDate) >= getTime(windowEndDate)
             THEN "done" ELSE "first"
    /\ UNCHANGED <<args, results, genVars, secondPaymentDate, previousDueDate,
                   currentDueDate, iterationSafety>>

\* lines 55-62: the running rent starts at the base; the lease guard
LeaseGuard ==
    /\ pc = "lease"
    /\ currentMonthlyRent' = baseMonthlyRent
    /\ pc' = IF getTime(leaseStartDate) > getTime(windowEndDate)
             THEN "done" ELSE "first"
    /\ UNCHANGED <<args, results, genVars, secondPaymentDate, previousDueDate,
                   currentDueDate, iterationSafety>>

\* lines 92-117: the first payment's fraction of the rent
FirstFraction(startDay, dueDay) ==
    IF startDay < dueDay THEN Rat(dueDay - startDay, 30)
    ELSE IF startDay = dueDay THEN One
    ELSE RatAdd(One, Rat(-(startDay - dueDay), 30))

\* SecondPayment staying in the lease's month in all three branches
SecondPaymentSameMonth(lease, dueDay) ==
    clampToLastDayOfMonth(NewDate(getFullYear(lease), getMonth(lease), dueDay))

\* lines 92-117: the date of the second payment
SecondPayment(lease, dueDay) ==
    IF getDate(lease) < dueDay
    THEN clampToLastDayOfMonth(NewDate(getFullYear(lease), getMonth(lease), dueDay))
    ELSE nextMonthSameDueDay(lease, dueDay)

\* InWindow without the lower bound
InWindowNoLowerBound(d) == getTime(d) <= getTime(windowEndDate)

\* lines 120, 151: the date is within the observation window
InWindow(d) ==
    /\ getTime(d) >= getTime(windowStartDate)
    /\ getTime(d) <= getTime(windowEndDate)

\* lines 64-134: the first payment and the set-up of the recurring loop
FirstPayment ==
    /\ pc = "first"
    /\ LET firstPaymentDate == leaseStartDate
           startDay == getDate(leaseStartDate)
           dueDay == dayOfMonthRentDue
           rent == applyAllApplicableRentChanges(currentMonthlyRent,
                       rentChangeRate, rentChangeDates, NoDate,
                       firstPaymentDate, leaseStartDate)
           firstPaymentAmount == RatMul(rent, FirstFraction(startDay, dueDay))
           second == SecondPayment(leaseStartDate, dueDay)
       IN  /\ currentMonthlyRent' = rent
           /\ secondPaymentDate' = second
           /\ results' = IF InWindow(firstPaymentDate)
                         THEN Append(results,
                                  [vacancy |-> FALSE,
                                   rentAmount |-> roundToTwo(firstPaymentAmount),
                                   rentDueDate |-> firstPaymentDate])
                         ELSE results
           /\ previousDueDate' = firstPaymentDate
           /\ currentDueDate' = second
           /\ iterationSafety' = 0
    /\ pc' = "loop"
    /\ UNCHANGED <<args, genVars>>

\* LoopStep as the body of a loop without the iteration cap
LoopStepUncapped ==
    /\ pc = "loop"
    /\ ~(getTime(currentDueDate) > getTime(windowEndDate))
    /\ LET rent == applyAllApplicableRentChanges(currentMonthlyRent,
                       rentChangeRate, rentChangeDates, previousDueDate,
                       currentDueDate, leaseStartDate)
       IN  /\ currentMonthlyRent' = rent
           /\ results' = IF InWindow(currentDueDate)
                         THEN Append(results,
                                  [vacancy |-> FALSE,
                                   rentAmount |-> roundToTwo(rent),
                                   rentDueDate |-> currentDueDate])
                         ELSE results
    /\ previousDueDate' = currentDueDate
    /\ currentDueDate' = nextMonthSameDueDay(currentDueDate, dayOfMonthRentDue)
    /\ iterationSafety' = iterationSafety + 1
    /\ UNCHANGED <<args, pc, genVars, secondPaymentDate>>

\* lines 135-162: one iteration of the recurring loop
LoopStep ==
    /\ pc = "loop"
    /\ iterationSafety < MaxIterations
    /\ ~(getTime(currentDueDate) > getTime(windowEndDate))
    /\ LET rent == applyAllApplicableRentChanges(currentMonthlyRent,
                       rentChangeRate, rentChangeDates, previousDueDate,
                       currentDueDate, leaseStartDate)
       IN  /\ currentMonthlyRent' = rent
           /\ results' = IF InWindow(currentDueDate)
                         THEN Append(results,
                                  [vacancy |-> FALSE,
                                   rentAmount |-> roundToTwo(rent),
                                   rentDueDate |-> currentDueDate])
                         ELSE results
    /\ previousDueDate' = currentDueDate
    /\ currentDueDate' = nextMonthSameDueDay(currentDueDate, dayOfMonthRentDue)
    /\ iterationSafety' = iterationSafety + 1
    /\ UNCHANGED <<args, pc, genVars, secondPaymentDate>>

\* LoopExit with the cap reached one iteration early
LoopExitOneEarly ==
    /\ pc = "loop"
    /\ \/ ~(iterationSafety < MaxIterations - 1)
       \/ getTime(currentDueDate) > getTime(windowEndDate)
    /\ pc' = "done"
    /\ UNCHANGED <<args, results, genVars, loopVars>>

\* lines 135-138, 164: the loop ends (cap reached or break) and results is returned
LoopExit ==
    /\ pc = "loop"
    /\ \/ ~(iterationSafety < MaxIterations)
       \/ getTime(currentDueDate) > getTime(windowEndDate)
    /\ pc' = "done"
    /\ UNCHANGED <<args, results, genVars, loopVars>>

Next ==
    \/ WindowGuard
    \/ GenBegin
    \/ GenLoop
    \/ LeaseGuard
    \/ FirstPayment
    \/ LoopStep
    \/ LoopExit

Spec == Init /\ [][Next]_vars

----------------------------------------------------------------------------
(* Calls with a lease or a window of more than MaxIterations months *)

\* the lease starts in January of y0 or, late, MaxIterations \div 12 years
\* and six months after it
LongLeaseDates(y0) ==
    { NewDate(y0, 0, 15), NewDate(y0 + (MaxIterations \div 12), 6, 1) }

\* the window starts with the early lease or shortly before the late one
LongWindowStarts(y0) ==
    { NewDate(y0, 0, 1), NewDate(y0 + (MaxIterations \div 12), 5, 1) }

\* the window ends two years after the early lease start or LongYears after
LongWindowEnds(y0) ==
    { NewDate(y0 + 2, 5, 15), NewDate(y0 + LongYears, 11, 31) }

LongDueDays == {15, 31}

\* no schedule, or a change every ten years
LongFrequencies == {0, 120}

LongRates == {Zero, [n |-> 1, d |-> 10]}

LongInit ==
    /\ \E y0 \in LongFirstYears :
        /\ leaseStartDate \in LongLeaseDates(y0)
        /\ windowStartDate \in LongWindowStarts(y0)
        /\ windowEndDate \in LongWindowEnds(y0)
    /\ baseMonthlyRent \in Bases
    /\ dayOfMonthRentDue \in LongDueDays
    /\ rentRateChangeFrequency \in LongFrequencies
    /\ rentChangeRate \in LongRates
    /\ pc = "start"
    /\ results = <<>>
    /\ rentChangeDates = <<>>
    /\ year = 0
    /\ month = 0
    /\ changeDate = NoDate
    /\ currentMonthlyRent = Zero
    /\ secondPaymentDate = NoDate
    /\ previousDueDate = NoDate
    /\ currentDueDate = NoDate
    /\ iterationSafety = 0

LongSpec == LongInit /\ [][Next]_vars

\* the call is one synchronous computation: it keeps executing while a step
\* is possible
LongFairSpec == LongInit /\ [][Next]_vars /\ WF_vars(Next)

----------------------------------------------------------------------------
(* Properties *)

Returned == pc = "done"

\* the first payment and the schedule are settled: the recurring loop runs
\* or has ended
Seeded == pc = "loop" \/ (pc = "done" /\ previousDueDate # NoDate)

Before(a, b) == getTime(a) < getTime(b)

AtOrBefore(a, b) == getTime(a) <= getTime(b)

\* the calendar, stated independently of the Date model
MonthLength(y, m) ==
    LET common == <<31, 28, 31, 30, 31, 30, 31, 31, 30, 31, 30, 31>>
        leap == (y % 4 = 0 /\ y % 100 # 0) \/ y % 400 = 0
    IN  IF m = 1 /\ leap THEN 29 ELSE common[m + 1]

Min(a, b) == IF a < b THEN a ELSE b

\* the recurring records: those dated after the lease start
Recurring == { i \in DOMAIN results :
                 Before(leaseStartDate, results[i].rentDueDate) }

\* C1: the returned records' due dates are strictly increasing, at every
\* point of the computation and so in the returned sequence.
C1_StrictlyIncreasing ==
    \A i \in 1..(Len(results) - 1) :
        Before(results[i].rentDueDate, results[i + 1].rentDueDate)

\* C1 witness: a call returned three or more records for a lease starting on
\* the last day of a short month with a due day beyond that month's length.
C1_Witness ==
    /\ Returned
    /\ Len(results) >= 3
    /\ getMonth(leaseStartDate) = 1
    /\ getDate(leaseStartDate)
         = MonthLength(getFullYear(leaseStartDate), getMonth(leaseStartDate))
    /\ dayOfMonthRentDue > getDate(leaseStartDate)
    /\ results[1].rentDueDate = leaseStartDate

\* C2: every record lies in the observation window.
C2_WindowContainment ==
    \A i \in DOMAIN results :
        /\ AtOrBefore(windowStartDate, results[i].rentDueDate)
        /\ AtOrBefore(results[i].rentDueDate, windowEndDate)

\* C2 witness: the lease started before the window, the loop passed due dates
\* before the window without recording them, and then recorded some.
C2_Witness ==
    /\ Returned
    /\ Before(leaseStartDate, windowStartDate)
    /\ Len(results) >= 2
    /\ iterationSafety > Len(results)

\* the due day clamped to the length of the month of date d
ClampedDueDay(d) ==
    Min(dayOfMonthRentDue, MonthLength(getFullYear(d), getMonth(d)))

\* C3: every due date after the first payment falls on the due day clamped
\* to its month's length, and when the lease starts before the due day the
\* second payment is in the lease's month on the clamped due day.
C3_ClampedDueDates ==
    /\ \A i \in Recurring :
          getDate(results[i].rentDueDate) = ClampedDueDay(results[i].rentDueDate)
    /\ (Seeded /\ getDate(leaseStartDate) < dayOfMonthRentDue) =>
          /\ getFullYear(secondPaymentDate) = getFullYear(leaseStartDate)
          /\ getMonth(secondPaymentDate) = getMonth(leaseStartDate)
          /\ getDate(secondPaymentDate) = ClampedDueDay(leaseStartDate)

\* the month after date d, as a month count since year 0
FollowingMonth(d) == getFullYear(d) * 12 + getMonth(d) + 1

\* C4: after each step of the recurring loop currentDueDate is in the calendar
\* month after previousDueDate, on the configured due day clamped to that
\* month's length (February: 29 in leap years, 28 otherwise).
C4_NextMonthStep ==
    (Seeded /\ iterationSafety > 0) =>
        LET t == FollowingMonth(previousDueDate)
            y == t \div 12
            m == t % 12
        IN  /\ getFullYear(currentDueDate) = y
            /\ getMonth(currentDueDate) = m
            /\ getDate(currentDueDate) = Min(dayOfMonthRentDue, MonthLength(y, m))
            /\ (m = 1 /\ dayOfMonthRentDue >= 29) =>
                  getDate(currentDueDate) = IF y = 2024 THEN 29 ELSE 28

\* C4 witness: with due day 31 the loop stepped from February's last day back
\* to March 31, after having rolled from December to January.
C4_Witness ==
    /\ Seeded
    /\ dayOfMonthRentDue = 31
    /\ getMonth(leaseStartDate) = 11
    /\ getMonth(previousDueDate) = 1
    /\ getDate(previousDueDate) < 30
    /\ currentDueDate
         = [year |-> getFullYear(previousDueDate), month |-> 2, day |-> 31]

RECURSIVE RatPow(_, _)
RatPow(r, k) == IF k = 0 THEN One ELSE RatMul(r, RatPow(r, k - 1))

\* base * (1 + rate)^k
Level(k) == RatMul(baseMonthlyRent, RatPow(RatAdd(One, rentChangeRate), k))

\* the proration fraction of the first payment, denominator 30
Proration(s, d) ==
    IF s < d THEN Rat(d - s, 30)
    ELSE IF s = d THEN One
    ELSE Rat(30 - (s - d), 30)

\* schedule dates on or before D
ScheduleUpTo(D) ==
    { i \in DOMAIN rentChangeDates : AtOrBefore(rentChangeDates[i], D) }

\* schedule dates strictly before D
ScheduleBefore(D) ==
    { i \in DOMAIN rentChangeDates : Before(rentChangeDates[i], D) }

\* schedule dates on or before D whose change applies: occupied and a positive
\* rate, or vacant and a negative rate
QualifyingUpTo(D) ==
    { i \in ScheduleUpTo(D) :
        \/ AtOrBefore(leaseStartDate, rentChangeDates[i]) /\ rentChangeRate.n > 0
        \/ Before(rentChangeDates[i], leaseStartDate) /\ rentChangeRate.n < 0 }

LeaseInWindow ==
    /\ AtOrBefore(windowStartDate, leaseStartDate)
    /\ AtOrBefore(leaseStartDate, windowEndDate)

\* the first record is the first payment, with the prorated amount of rent R
FirstRecordIs(R) ==
    /\ Len(results) >= 1
    /\ results[1].rentDueDate = leaseStartDate
    /\ results[1].rentAmount
         = roundToTwo(RatMul(R, Proration(getDate(leaseStartDate),
                                          dayOfMonthRentDue)))

\* C5 without its last clause: the date and the amount of the first record
C5_FirstRecord ==
    (Seeded /\ LeaseInWindow) =>
        FirstRecordIs(Level(Cardinality(QualifyingUpTo(leaseStartDate))))

\* C5: with the lease start in the window the first record is dated
\* leaseStartDate with amount round2(R * f), f the 30-day proration fraction,
\* and the following due date is in the same month when the start day is
\* before the due day and in the next calendar month otherwise.
C5_FirstPayment ==
    (Seeded /\ LeaseInWindow) =>
        /\ FirstRecordIs(Level(Cardinality(QualifyingUpTo(leaseStartDate))))
        /\ IF getDate(leaseStartDate) < dayOfMonthRentDue
           THEN FollowingMonth(secondPaymentDate)
                  = FollowingMonth(leaseStartDate)
           ELSE FollowingMonth(secondPaymentDate)
                  = FollowingMonth(leaseStartDate) + 1

LeaseBeforeSchedule ==
    \A i \in DOMAIN rentChangeDates :
        Before(leaseStartDate, rentChangeDates[i])

\* C6: with a positive rate and the lease starting before every schedule date,
\* the running rent is base * (1 + rate)^k after k schedule dates have been
\* passed, every recurring record carries the rounded level of its due date,
\* amounts never decrease along the records, and a recurring record separated
\* from the previous one by a schedule date is strictly higher.
C6_OccupiedIncrease ==
    (Seeded /\ rentChangeRate.n > 0 /\ LeaseBeforeSchedule) =>
        /\ currentMonthlyRent
             = Level(Cardinality(ScheduleUpTo(previousDueDate)))
        /\ \A i \in Recurring :
              results[i].rentAmount
                = roundToTwo(Level(Cardinality(
                                     ScheduleUpTo(results[i].rentDueDate))))
        /\ \A i, j \in DOMAIN results :
              i < j => results[i].rentAmount <= results[j].rentAmount
        /\ \A i \in Recurring :
              (i + 1 \in DOMAIN results
                 /\ ScheduleUpTo(results[i + 1].rentDueDate)
                      # ScheduleUpTo(results[i].rentDueDate))
              => results[i].rentAmount < results[i + 1].rentAmount

\* C6 witness: three recurring records, each after one more schedule date.
C6_Witness ==
    /\ Returned
    /\ rentChangeRate.n > 0
    /\ LeaseBeforeSchedule
    /\ Len(rentChangeDates) >= 2
    /\ Cardinality(Recurring) >= 3
    /\ results[Len(results)].rentAmount > results[Len(results) - 1].rentAmount
    /\ results[Len(results) - 1].rentAmount > results[Len(results) - 2].rentAmount

\* C7: with a negative rate the running rent is base * (1 + rate)^n, n the
\* number of schedule dates strictly before the lease start, from the first
\* payment on, and every recurring record carries that amount.
C7_VacantDecrease ==
    (Seeded /\ rentChangeRate.n < 0) =>
        LET frozen == Level(Cardinality(ScheduleBefore(leaseStartDate)))
        IN  /\ currentMonthlyRent = frozen
            /\ \A i \in Recurring :
                  results[i].rentAmount = roundToTwo(frozen)

\* C7 witness: the lease starts on a schedule date, after an earlier one, and
\* two recurring records were returned although later schedule dates passed.
C7_Witness ==
    /\ Returned
    /\ rentChangeRate.n < 0
    /\ \E i \in DOMAIN rentChangeDates : rentChangeDates[i] = leaseStartDate
    /\ ScheduleBefore(leaseStartDate) # {}
    /\ ScheduleUpTo(previousDueDate) # ScheduleUpTo(leaseStartDate)
    /\ Cardinality(Recurring) >= 2

\* C8: with windowStartDate > windowEndDate the call returns no records, and
\* neither the schedule nor any payment is computed.
C8_InvertedWindow ==
    Before(windowEndDate, windowStartDate) =>
        /\ results = <<>>
        /\ pc \in {"start", "done"}
        /\ rentChangeDates = <<>>
        /\ changeDate = NoDate
        /\ previousDueDate = NoDate

\* C8 witness: a call with an inverted window returned, the lease start being
\* on or before both bounds and the frequency and rate being non-zero.
C8_Witness ==
    /\ Returned
    /\ Before(windowEndDate, windowStartDate)
    /\ AtOrBefore(leaseStartDate, windowEndDate)
    /\ rentRateChangeFrequency > 0
    /\ rentChangeRate.n # 0

C10_NoSchedule ==
    rentRateChangeFrequency <= 0 =>
        /\ rentChangeDates = <<>>
        /\ pc # "genloop"
        /\ Seeded =>
              /\ currentMonthlyRent = baseMonthlyRent
              /\ \A i \in Recurring :
                    results[i].rentAmount = roundToTwo(baseMonthlyRent)
              /\ LeaseInWindow => FirstRecordIs(baseMonthlyRent)

\* C10 witness: a call with frequency <= 0 and a non-zero rate returned a
\* prorated first payment and two recurring records.
C10_Witness ==
    /\ Returned
    /\ rentRateChangeFrequency <= 0
    /\ rentChangeRate.n # 0
    /\ LeaseInWindow
    /\ getDate(leaseStartDate) # dayOfMonthRentDue
    /\ Len(results) >= 3

\* the k-th monthly due date of the lease counted from the second payment
\* (k = 0): the months after the second payment's, on the clamped due day
DueDateAt(k) ==
    IF k = 0 THEN secondPaymentDate
    ELSE LET t == FollowingMonth(secondPaymentDate) - 1 + k
             y == t \div 12
             m == t % 12
         IN  [year |-> y, month |-> m,
              day |-> Min(dayOfMonthRentDue, MonthLength(y, m))]

RecordedDates == { results[i].rentDueDate : i \in DOMAIN results }

\* the number of calendar months from the second payment's to the window
\* end's, plus one: no later due date is on or before the window end
MonthsToWindowEnd ==
    IF Before(windowEndDate, secondPaymentDate) THEN 0
    ELSE FollowingMonth(windowEndDate) - FollowingMonth(secondPaymentDate) + 1

\* the due dates DueDateAt(0..n-1) that lie in the window are all recorded
DueDatesRecorded(n) ==
    \A k \in 0..(n - 1) :
        (AtOrBefore(windowStartDate, DueDateAt(k))
           /\ AtOrBefore(DueDateAt(k), windowEndDate))
        => DueDateAt(k) \in RecordedDates

\* C11 as stated: a call that got past both guards returns only once
\* currentDueDate > windowEndDate, and every monthly due date of the lease
\* in the window, from the second payment on, is recorded.
C11_WindowExhausted ==
    (Returned /\ Seeded) =>
        /\ Before(windowEndDate, currentDueDate)
        /\ DueDatesRecorded(MonthsToWindowEnd)

\* C11 amended: the loop ends because currentDueDate > windowEndDate or
\* because it ran MaxIterations times, and the first MaxIterations due dates
\* from the second payment on that lie in the window are all recorded.
C11_WindowExhaustedUpToCap ==
    (Returned /\ Seeded) =>
        /\ Before(windowEndDate, currentDueDate)
             \/ iterationSafety = MaxIterations
        /\ DueDatesRecorded(Min(MonthsToWindowEnd, MaxIterations))

\* C11 witness: the lease started more than MaxIterations months before the
\* end of the window, the loop recorded due dates in the window and returned
\* at the cap with currentDueDate still inside the window.
C11_Witness ==
    /\ Returned
    /\ iterationSafety = MaxIterations
    /\ Before(leaseStartDate, windowStartDate)
    /\ Len(results) >= 1
    /\ AtOrBefore(windowStartDate, currentDueDate)
    /\ AtOrBefore(currentDueDate, windowEndDate)

\* the 1st of the month k * frequency months after the window start's month
ScheduleDate(k) ==
    LET t == FollowingMonth(windowStartDate) - 1 + k * rentRateChangeFrequency
    IN  [year |-> t \div 12, month |-> t % 12, day |-> 1]

\* S: the schedule dates k >= 1 on or before the window end
ClaimedSchedule ==
    LET n == FollowingMonth(windowEndDate) - FollowingMonth(windowStartDate)
    IN  { cd \in { ScheduleDate(k) : k \in 1..(IF n < 0 THEN 0 ELSE n) } :
            AtOrBefore(cd, windowEndDate) }

\* m: the dates of the schedule S on or before D whose change applies
ClaimedChanges(S, D) ==
    { cd \in S :
        /\ AtOrBefore(cd, D)
        /\ \/ AtOrBefore(leaseStartDate, cd) /\ rentChangeRate.n > 0
           \/ Before(cd, leaseStartDate) /\ rentChangeRate.n < 0 }

\* C12: for a frequency >= 1 the generated schedule is S, in chronological
\* order without repetition; the running rent after the due date D last
\* processed, and the rent of every returned recurring record due on D, is
\* base * (1 + rate)^m, m the number of dates of S on or before D that
\* qualify, each counted once; the first record is prorated from that level
\* at the lease start.
C12_EachChangeOnce ==
    (Seeded /\ rentRateChangeFrequency >= 1) =>
        LET S == ClaimedSchedule
        IN  /\ { rentChangeDates[i] : i \in DOMAIN rentChangeDates } = S
            /\ \A i \in 1..(Len(rentChangeDates) - 1) :
                  Before(rentChangeDates[i], rentChangeDates[i + 1])
            /\ currentMonthlyRent
                 = Level(Cardinality(ClaimedChanges(S, previousDueDate)))
            /\ Returned =>
                  \A i \in Recurring :
                      results[i].rentAmount
                        = roundToTwo(Level(Cardinality(
                                  ClaimedChanges(S, results[i].rentDueDate))))
            /\ LeaseInWindow =>
                  FirstRecordIs(Level(Cardinality(
                                  ClaimedChanges(S, leaseStartDate))))

\* C12 witness: with a positive rate, schedule dates before the lease start
\* did not apply, two later ones did, and two recurring records were returned
\* at different levels.
C12_Witness ==
    /\ Returned
    /\ rentRateChangeFrequency >= 1
    /\ rentChangeRate.n > 0
    /\ ScheduleBefore(leaseStartDate) # {}
    /\ Cardinality(ClaimedChanges(ClaimedSchedule, previousDueDate)) >= 2
    /\ Cardinality(ClaimedChanges(ClaimedSchedule, previousDueDate)) < Len(rentChangeDates)
    /\ Cardinality(Recurring) >= 2
    /\ results[Len(results)].rentAmount > results[Len(results) - 1].rentAmount

\* C13: every call returns; each iteration of the schedule loop moves the
\* candidate date forward by a frequency >= 1; each iteration of the recurring
\* loop moves currentDueDate forward and counts one more, never beyond
\* MaxIterations; the records number at most one more than the iterations,
\* so at most MaxIterations + 1.
C13_Terminates ==
    /\ <>Returned
    /\ [](/\ iterationSafety <= MaxIterations
          /\ Len(results) <= iterationSafety + 1
          /\ Len(results) <= MaxIterations + 1)
    /\ [][(pc = "genloop" /\ pc' = "genloop") =>
            /\ rentRateChangeFrequency >= 1
            /\ Before(changeDate, changeDate')
            /\ AtOrBefore(changeDate, windowEndDate)]_vars
    /\ [][(pc = "loop" /\ pc' = "loop") =>
            /\ iterationSafety' = iterationSafety + 1
            /\ Before(currentDueDate, currentDueDate')]_vars

\* C13 witness: a call returned MaxIterations + 1 records, the first payment
\* and one for each of MaxIterations iterations, the window not exhausted.
C13_Witness ==
    /\ Returned
    /\ iterationSafety = MaxIterations
    /\ Len(results) = MaxIterations + 1
    /\ AtOrBefore(currentDueDate, windowEndDate)
    /\ rentChangeDates # <<>>

====
